---- MODULE Spec2Model ----
(***************************************************************************)
(* Model of chromeoxid_pdl's code generator (build/generator.rs):          *)
(* Generator::compile_pdls and the synthesis steps it drives.              *)
(*                                                                         *)
(* Names (domain, type, field and variant names, identifiers) are          *)
(* sequences of one-character strings, so that heck's case conversions and *)
(* the '.'-splitting of qualified references are computed, not assumed.    *)
(***************************************************************************)
EXTENDS Integers, Sequences, FiniteSets, TLC

(***************************************************************************)
(* Characters and heck's case conversions                                  *)
(***************************************************************************)
Lowers == <<"a","b","c","d","e","f","g","h","i","j","k","l","m",
            "n","o","p","q","r","s","t","u","v","w","x","y","z">>

Uppers == <<"A","B","C","D","E","F","G","H","I","J","K","L","M",
            "N","O","P","Q","R","S","T","U","V","W","X","Y","Z">>

IsLower(c) == \E i \in 1..Len(Lowers) : Lowers[i] = c

IsUpper(c) == \E i \in 1..Len(Uppers) : Uppers[i] = c

IsAlnum(c) == IsLower(c) \/ IsUpper(c)

ToUpper(c) ==
  IF IsLower(c) THEN Uppers[CHOOSE i \in 1..Len(Lowers) : Lowers[i] = c] ELSE c

ToLower(c) ==
  IF IsUpper(c) THEN Lowers[CHOOSE i \in 1..Len(Uppers) : Uppers[i] = c] ELSE c

\* str::to_lowercase
to_lowercase(s) == [i \in 1..Len(s) |-> ToLower(s[i])]

\* s.split(|c| !c.is_alphanumeric()): the maximal alphanumeric runs of s
\* (heck skips the empty pieces, which hold no word).
RECURSIVE SplitAlnum(_, _, _)
SplitAlnum(s, i, cur) ==
  IF i > Len(s) THEN (IF cur = <<>> THEN <<>> ELSE <<cur>>)
  ELSE IF IsAlnum(s[i]) THEN SplitAlnum(s, i + 1, Append(cur, s[i]))
  ELSE (IF cur = <<>> THEN <<>> ELSE <<cur>>) \o SplitAlnum(s, i + 1, <<>>)

\* heck's word boundaries inside one alphanumeric run w: after a lowercase
\* character followed by an uppercase one, and before the last uppercase
\* character of an uppercase run that is followed by a lowercase one.
\* mode: "B" boundary, "L" lowercase, "U" uppercase.
RECURSIVE SplitCase(_, _, _, _)
SplitCase(w, i, init, mode) ==
  IF i > Len(w) THEN <<>>
  ELSE IF i = Len(w) THEN <<SubSeq(w, init, Len(w))>>
  ELSE LET c == w[i]
           next == w[i + 1]
           next_mode == IF IsLower(c) THEN "L" ELSE IF IsUpper(c) THEN "U" ELSE mode
       IN IF next_mode = "L" /\ IsUpper(next)
          THEN <<SubSeq(w, init, i)>> \o SplitCase(w, i + 1, i + 1, "B")
          ELSE IF mode = "U" /\ IsUpper(c) /\ IsLower(next)
          THEN <<SubSeq(w, init, i - 1)>> \o SplitCase(w, i + 1, i, "B")
          ELSE SplitCase(w, i + 1, init, next_mode)

RECURSIVE FlatMapWords(_)
FlatMapWords(runs) ==
  IF runs = <<>> THEN <<>>
  ELSE SplitCase(Head(runs), 1, 1, "B") \o FlatMapWords(Tail(runs))

HeckWords(s) == FlatMapWords(SplitAlnum(s, 1, <<>>))

Capitalize(w) ==
  IF w = <<>> THEN <<>> ELSE <<ToUpper(w[1])>> \o to_lowercase(Tail(w))

RECURSIVE JoinCamel(_)
JoinCamel(ws) ==
  IF ws = <<>> THEN <<>> ELSE Capitalize(Head(ws)) \o JoinCamel(Tail(ws))

RECURSIVE JoinSnake(_)
JoinSnake(ws) ==
  IF ws = <<>> THEN <<>>
  ELSE IF Len(ws) = 1 THEN to_lowercase(ws[1])
  ELSE to_lowercase(ws[1]) \o <<"_">> \o JoinSnake(Tail(ws))

\* heck::CamelCase::to_camel_case (upper camel case)
to_camel_case(s) == JoinCamel(HeckWords(s))

\* heck::SnakeCase::to_snake_case
to_snake_case(s) == JoinSnake(HeckWords(s))

\* Position of the last '.' of s, 0 when there is none.
LastDot(s) ==
  IF \E i \in 1..Len(s) : s[i] = "."
  THEN CHOOSE i \in 1..Len(s) : s[i] = "." /\ \A j \in (i + 1)..Len(s) : s[j] # "."
  ELSE 0

\* name.rsplit('.').next().unwrap(): what follows the last '.'
LastSegment(s) == SubSeq(s, LastDot(s) + 1, Len(s))

\* the rest of name.rsplitn(2, '.'): what precedes the last '.'
PathPrefix(s) == IF LastDot(s) = 0 THEN <<>> ELSE SubSeq(s, 1, LastDot(s) - 1)

(***************************************************************************)
(* The IR (pdl::Type, Param, DomainDatatype, Domain, Protocol)             *)
(***************************************************************************)
TInteger == [k |-> "Integer"]
TNumber  == [k |-> "Number"]
TBoolean == [k |-> "Boolean"]
TString  == [k |-> "String"]
TObject  == [k |-> "Object"]
TAny     == [k |-> "Any"]
TBinary  == [k |-> "Binary"]
TEnum(vs)    == [k |-> "Enum", vars |-> vs]
TArrayOf(ty) == [k |-> "ArrayOf", of |-> ty]
TRef(name)   == [k |-> "Ref", name |-> name]

\* Param: name, type, optional, deprecated, experimental
Param(name, ty, optional, deprecated, experimental) ==
  [name |-> name, type |-> ty, optional |-> optional,
   deprecated |-> deprecated, experimental |-> experimental]

\* DomainDatatype: kind is "Type", "Command" or "Event"; a TypeDef carries
\* `extends` and, when it is an enum, its variant names; a Command carries
\* its `returns` list.
Datatype(kind, name, params, returns, extends, is_enum, vs, deprecated, experimental) ==
  [kind |-> kind, name |-> name, params |-> params, returns |-> returns,
   extends |-> extends, is_enum |-> is_enum, vars |-> vs,
   deprecated |-> deprecated, experimental |-> experimental]

Domain(name, types, deprecated, experimental) ==
  [name |-> name, types |-> types, deprecated |-> deprecated,
   experimental |-> experimental]

\* DomainDatatype::name: the datatype's own (unqualified) name
dt_name(dt) == dt.name

\* DomainDatatype::ident_name: the name of the generated record
ident_name(dt) == to_camel_case(dt.name)

\* DomainDatatype::raw_name: the IDL-qualified name, Domain.name
raw_name(domain, dt) == domain.name \o <<".">> \o dt.name

is_type(dt) == dt.kind = "Type"

is_command(dt) == dt.kind = "Command"

is_event(dt) == dt.kind = "Event"

\* DomainDatatype::as_enum: Some(variants) for an enum TypeDef
as_enum(dt) == dt.kind = "Type" /\ dt.is_enum

(***************************************************************************)
(* Size contributions (std::mem::size_of on the 64-bit build host)         *)
(***************************************************************************)
SizeI64 == 8
SizeF64 == 8
SizeBool == 1
SizeString == 24
SizeValue == 32
SizeU8 == 1
SizeEnum == 16
SizeVec == 24
SizeBox == 8
BoxThreshold == 200

\* Either<usize, String>
Left(n) == [side |-> "L", size |-> n, name |-> <<>>]

Right(name) == [side |-> "R", size |-> 0, name |-> name]

(***************************************************************************)
(* Finite maps (HashMap)                                                   *)
(***************************************************************************)
EmptyMap == <<>>

Has(m, key) == key \in DOMAIN m

Put(m, key, v) == [q \in (DOMAIN m) \cup {key} |-> IF q = key THEN v ELSE m[q]]

RECURSIVE PutAll(_, _, _)
PutAll(m, keys, v) ==
  IF keys = <<>> THEN m ELSE PutAll(Put(m, Head(keys), v), Tail(keys), v)

(***************************************************************************)
(* Output field types and paths                                            *)
(***************************************************************************)
\* A path expression: `supers` leading super:: segments, then the document
\* module (<<>> when absent), the domain module (<<>> when absent), the type.
Path(supers, doc, dom, ty) == [supers |-> supers, doc |-> doc, dom |-> dom, ty |-> ty]

Prim(token) == Path(0, <<>>, <<>>, <<token>>)

\* FieldType::new, FieldType::new_vec, FieldType::new_box: `of` is the wrapped
\* type (a path, or for an array of non-references the element's field type),
\* `boxes` the number of Box levels put around it.
FieldTypeNew(of) == [of |-> of, vec |-> FALSE, boxes |-> 0]

FieldTypeNewVec(of) == [of |-> of, vec |-> TRUE, boxes |-> 0]

FieldTypeNewBox(of) == [of |-> of, vec |-> FALSE, boxes |-> 1]

\* type_name: camel case, then the keyword escapes
Escaped(n) ==
  IF n \in {<<"t","y","p","e">>, <<"m","o","d">>, <<"o","v","e","r","r","i","d","e">>}
  THEN <<"r","#">> \o n ELSE n

type_name(name) == Escaped(to_camel_case(name))

\* field_name: snake case, then the keyword escapes
field_name(name) == Escaped(to_snake_case(name))

subenum_name(parent, inner) == to_camel_case(parent) \o type_name(inner)

VARIABLES
  with_experimental,  \* Generator.with_experimental
  with_deprecated,    \* Generator.with_deprecated
  out_dir,            \* Generator.out_dir: "none" or "set"
  protocol_mods,      \* Generator.protocol_mods: Vec<String>
  domains,            \* Generator.domains: domain name -> document index (0-based)
  type_size,          \* Generator.type_size: type name -> size
  ref_sizes,          \* Generator.ref_sizes: Vec<(String, String)>
  pc,                 \* position of the running compile_pdls call
  pdls,               \* the call's argument: the files at the given paths
  next_path,          \* loop index of the read loop / the parse loop
  protocols,          \* local `protocols`: the parsed documents
  work,               \* the datatypes still to synthesize, in loop order
  modules,            \* local `modules`: the emitted datatype items
  refs,               \* local `refs` of the fix-up pass
  events,             \* result of generate_event_enums
  failure,            \* why the call failed ("" while it has not)
  target,             \* local `target`: "none", "out_dir" or "env"
  artifact,           \* content of <target>/<mod>.rs (<<>> while absent)
  wrote,              \* whether the running call has written the artifact
  calls,              \* log of the generate_field_type calls for fields
  runs,               \* number of compile_pdls calls started on this Generator
  first_output,       \* output text of the first completed call
  dir,                \* entries of the output location that fmt has yet to visit
  formatted,          \* the rustfmt runs of the running call: file and result
  exit_code           \* status the process exited with (NotExited while it runs)

vars == <<with_experimental, with_deprecated, out_dir, protocol_mods, domains,
          type_size, ref_sizes, pc, pdls, next_path, protocols, work, modules,
          refs, events, failure, target, artifact, wrote, calls, runs,
          first_output, dir, formatted, exit_code>>

(***************************************************************************)
(* Type Resolver                                                           *)
(***************************************************************************)
PathPanic == [supers |-> 0, doc |-> <<>>, dom |-> <<>>, ty |-> <<"!">>]

\* A variant of ProjectedPath that never looks at the documents.
ProjectedPathSameDocument(domain, path, ident) ==
  IF path = <<>> THEN Path(0, <<>>, <<>>, ident)
  ELSE IF ~Has(domains, domain.name) \/ ~Has(domains, path) THEN PathPanic
  ELSE Path(1, <<>>, to_snake_case(path), ident)

\* projected_type for a name with the domain prefix `path` and the type
\* identifier `ident`.
ProjectedPath(domain, path, ident) ==
  IF path = <<>> THEN Path(0, <<>>, <<>>, ident)
  ELSE IF ~Has(domains, domain.name) \/ ~Has(domains, path) THEN PathPanic
  ELSE IF domains[domain.name] = domains[path]
  THEN Path(1, <<>>, to_snake_case(path), ident)
  ELSE Path(2, protocol_mods[domains[path] + 1], to_snake_case(path), ident)

\* Generator::projected_type
projected_type(domain, name) ==
  ProjectedPath(domain, PathPrefix(name), to_camel_case(LastSegment(name)))

\* The Type::Ref arm of generate_field_type: a reference to the enclosing
\* datatype is boxed, any other is projected and its size deferred.
RefFieldType(domain, parent, name) ==
  IF name = parent
  THEN [ty |-> FieldTypeNewBox(Path(0, <<>>, <<>>, to_camel_case(name))),
        size |-> Left(SizeBox)]
  ELSE [ty |-> FieldTypeNew(projected_type(domain, name)),
        size |-> Right(to_camel_case(LastSegment(name)))]

\* Generator::generate_field_type: (FieldType, Either<usize, String>)
RECURSIVE generate_field_type(_, _, _, _)
generate_field_type(domain, parent, param_name, ty) ==
  CASE ty.k = "Integer" -> [ty |-> FieldTypeNew(Prim("i64")), size |-> Left(SizeI64)]
    [] ty.k = "Number"  -> [ty |-> FieldTypeNew(Prim("f64")), size |-> Left(SizeF64)]
    [] ty.k = "Boolean" -> [ty |-> FieldTypeNew(Prim("bool")), size |-> Left(SizeBool)]
    [] ty.k = "String"  -> [ty |-> FieldTypeNew(Prim("String")), size |-> Left(SizeString)]
    [] ty.k \in {"Object", "Any"} ->
         [ty |-> FieldTypeNew(Prim("serde_json::Value")), size |-> Left(SizeValue)]
    [] ty.k = "Binary"  -> [ty |-> FieldTypeNewVec(Prim("u8")), size |-> Left(SizeU8)]
    [] ty.k = "Enum" ->
         [ty |-> FieldTypeNew(Path(0, <<>>, <<>>, subenum_name(parent, param_name))),
          size |-> Left(SizeEnum)]
    [] ty.k = "ArrayOf" ->
         [ty |-> FieldTypeNewVec(
                   IF ty.of.k = "Ref"
                   THEN projected_type(domain, ty.of.name)
                   ELSE generate_field_type(domain, parent, param_name, ty.of).ty),
          size |-> Left(SizeVec)]
    [] ty.k = "Ref" -> RefFieldType(domain, parent, ty.name)

\* Whether a field type holds a path that failed to resolve (the panic of
\* projected_type for an unknown domain).
RECURSIVE Panicked(_)
Panicked(ft) ==
  IF "ty" \in DOMAIN ft.of THEN ft.of = PathPanic ELSE Panicked(ft.of)

(***************************************************************************)
(* Size Tracker and Struct/Enum Synthesizer.  The operators thread         *)
(* S = [type_size, ref_sizes, calls, panic]: the fields of the Generator   *)
(* they mutate, the log of field resolutions, and whether the call         *)
(* panicked.                                                               *)
(***************************************************************************)
\* Generator::store_size
store_size(S, ty, size) ==
  IF size.side = "L"
  THEN [S EXCEPT !.type_size =
          Put(@, ty, (IF Has(@, ty) THEN @[ty] ELSE 0) + size.size)]
  ELSE [S EXCEPT !.ref_sizes = Append(@, <<ty, size.name>>)]

\* Generator::generate_enum: registers the enum's size and emits the enum with
\* its as_str / from_str tables (vars[i] is the identifier of wire string strs[i]).
EnumNamed(S, enum_name, variants) ==
  [S |-> [S EXCEPT !.type_size = Put(@, enum_name, SizeEnum)],
   def |-> [def |-> "enum", name |-> enum_name,
            vars |-> [i \in 1..Len(variants) |-> to_camel_case(variants[i])],
            strs |-> variants]]

generate_enum(S, ident, variants) ==
  EnumNamed(S, to_camel_case(LastSegment(ident)), variants)

\* The generated from_str of the enum e (generate_enum_str_fns): the variant of
\* the first arm whose string is s, else Err(s.to_string()).
from_str(e, s) ==
  IF \E i \in 1..Len(e.strs) : e.strs[i] = s
  THEN [ok |-> TRUE, err |-> <<>>,
        var |-> e.vars[CHOOSE i \in 1..Len(e.strs) :
                         e.strs[i] = s /\ \A j \in 1..(i - 1) : e.strs[j] # s]]
  ELSE [ok |-> FALSE, err |-> s, var |-> <<>>]

\* The generated as_str of the enum e: the string of the first arm for the
\* variant v.
as_str(e, v) ==
  e.strs[CHOOSE i \in 1..Len(e.vars) :
           e.vars[i] = v /\ \A j \in 1..(i - 1) : e.vars[j] # v]

HoistedOf(E) == [S |-> E.S, defs |-> <<E.def>>]

SizeOf(S, ty) == IF Has(S.type_size, ty) THEN S.type_size[ty] ELSE 0

\* The state S1 reached from S0 by storing the size r.size of one resolved type,
\* with the resolution appended to the log: what was resolved, to what, how much
\* it added to the record's size and how many worklist entries it pushed.
Logged(S0, S1, idx, domain, dt, struct_ident, name, ty, r, alias) ==
  [S1 EXCEPT !.calls =
     Append(@, [doc |-> idx, dom |-> domain.name, parent |-> dt_name(dt),
                struct |-> struct_ident, param |-> name, type |-> ty,
                ty |-> r.ty, size |-> r.size, alias |-> alias,
                added |-> SizeOf(S1, struct_ident) - SizeOf(S0, struct_ident),
                pushed |-> Len(S1.ref_sizes) - Len(S0.ref_sizes)])]

\* The hoisted enum of one parameter (the `if let Type::Enum` of the loop of
\* generate_struct): the state after it and the definitions it adds.
HoistEnum(S, dt, param) ==
  IF param.type.k = "Enum"
  THEN HoistedOf(generate_enum(S, subenum_name(dt_name(dt), param.name),
                               param.type.vars))
  ELSE [S |-> S, defs |-> <<>>]

\* The `for param in params` loop of generate_struct; StructParam is the rest
\* of one iteration, given the iteration's hoisted enum E and the result r of
\* its generate_field_type call.
RECURSIVE StructParams(_, _, _, _, _, _, _, _)
RECURSIVE StructParam(_, _, _, _, _, _, _, _, _, _)
StructParams(S, idx, domain, dt, struct_ident, params, fields, enums) ==
  IF params = <<>> \/ S.panic THEN [S |-> S, fields |-> fields, enums |-> enums]
  ELSE StructParam(idx, domain, dt, struct_ident, Head(params), Tail(params),
                   fields, enums, HoistEnum(S, dt, Head(params)),
                   generate_field_type(domain, dt_name(dt), Head(params).name,
                                       Head(params).type))

StructParam(idx, domain, dt, struct_ident, param, rest, fields, enums, E, r) ==
  IF Panicked(r.ty)
  THEN [S |-> [E.S EXCEPT !.panic = TRUE], fields |-> fields,
        enums |-> enums \o E.defs]
  ELSE StructParams(
         Logged(E.S, store_size(E.S, struct_ident, r.size), idx, domain, dt,
                struct_ident, param.name, param.type, r, FALSE),
         idx, domain, dt, struct_ident, rest,
         Append(fields, [name |-> field_name(param.name), ty |-> r.ty,
                         optional |-> param.optional,
                         deprecated |-> param.deprecated]),
         enums \o E.defs)

\* Builder::has_mandatory_types
has_mandatory_types(fields) == \E i \in 1..Len(fields) : ~fields[i].optional

\* A variant of WrapperStruct that derives Eq and Hash for every alias.
WrapperStructHashable(S, idx, domain, dt, struct_ident, r) ==
  IF Panicked(r.ty) THEN [S |-> [S EXCEPT !.panic = TRUE], defs |-> <<>>]
  ELSE [S |-> Logged(S, store_size(S, struct_ident, r.size), idx, domain, dt,
                     struct_ident, dt_name(dt), dt.extends, r, TRUE),
        defs |-> <<[def |-> "wrapper", name |-> struct_ident, wrapped |-> r.ty,
                    eq_hash |-> TRUE,
                    as_ref_str |-> dt.extends.k = "String",
                    default |-> TRUE, builder |-> FALSE]>>]

\* generate_struct for a TypeDef without fields: the wrapper over the resolved
\* `extends` type r.
WrapperStruct(S, idx, domain, dt, struct_ident, r) ==
  IF Panicked(r.ty) THEN [S |-> [S EXCEPT !.panic = TRUE], defs |-> <<>>]
  ELSE [S |-> Logged(S, store_size(S, struct_ident, r.size), idx, domain, dt,
                     struct_ident, dt_name(dt), dt.extends, r, TRUE),
        defs |-> <<[def |-> "wrapper", name |-> struct_ident, wrapped |-> r.ty,
                    eq_hash |-> dt.extends.k \in {"Integer", "String"},
                    as_ref_str |-> dt.extends.k = "String",
                    default |-> TRUE, builder |-> FALSE]>>]

\* generate_struct after its parameter loop L.
StructDefs(L, idx, domain, dt, struct_ident) ==
  IF L.S.panic THEN [S |-> L.S, defs |-> <<>>]
  ELSE IF L.fields = <<>>
  THEN IF is_type(dt)
       THEN WrapperStruct(L.S, idx, domain, dt, struct_ident,
              generate_field_type(domain, dt_name(dt), dt_name(dt), dt.extends))
       ELSE [S |-> [L.S EXCEPT !.type_size = Put(@, struct_ident, 0)],
             defs |-> <<[def |-> "empty", name |-> struct_ident,
                         default |-> TRUE, builder |-> FALSE]>>]
  ELSE [S |-> L.S,
        defs |-> <<[def |-> "struct", name |-> struct_ident, fields |-> L.fields,
                    default |-> ~has_mandatory_types(L.fields),
                    builder |-> is_command(dt) \/ is_type(dt)]>> \o L.enums]

\* Generator::generate_struct: the definitions emitted for one record.
generate_struct(S, idx, domain, dt, struct_ident, params) ==
  StructDefs(StructParams(S, idx, domain, dt, struct_ident, params, <<>>, <<>>),
             idx, domain, dt, struct_ident)

\* A variant of Included that ignores the configured flags.
IncludedUnlessDeprecated(item) == ~item.deprecated

\* The inclusion filter of generate_types, generate_domain, generate_type and
\* generate_event_enums.
Included(item) ==
  /\ with_deprecated \/ ~item.deprecated
  /\ with_experimental \/ ~item.experimental

RECURSIVE SelectIncluded(_)
SelectIncluded(xs) ==
  IF xs = <<>> THEN <<>>
  ELSE (IF Included(Head(xs)) THEN <<Head(xs)>> ELSE <<>>) \o SelectIncluded(Tail(xs))

ReturnsSuffix == <<"R","e","t","u","r","n","s">>

\* generate_type for an enum TypeDef: the enum alone.
EnumItem(E, idx, domain, dt) ==
  [S |-> E.S,
   item |-> [doc |-> idx, dom |-> to_snake_case(domain.name),
             name |-> E.def.name, kind |-> dt.kind, defs |-> <<E.def>>,
             identifier |-> <<>>, method |-> FALSE, response |-> <<>>,
             deprecated |-> dt.deprecated]]

\* generate_type for a record: the record A, for a Command the Returns record
\* B, the IDENTIFIER constant and the Method and Command impls.
RecordItem(A, B, idx, domain, dt) ==
  [S |-> B.S,
   item |-> [doc |-> idx, dom |-> to_snake_case(domain.name),
             name |-> ident_name(dt), kind |-> dt.kind,
             defs |-> A.defs \o B.defs,
             identifier |-> raw_name(domain, dt),
             method |-> ~is_type(dt),
             response |-> IF is_command(dt)
                          THEN to_camel_case(dt_name(dt)) \o ReturnsSuffix ELSE <<>>,
             deprecated |-> dt.deprecated]]

\* The Returns record of a Command, generated after the record A.
ReturnsStruct(A, idx, domain, dt) ==
  IF is_command(dt) /\ ~A.S.panic
  THEN generate_struct(A.S, idx, domain, dt,
                       to_camel_case(dt_name(dt)) \o ReturnsSuffix,
                       SelectIncluded(dt.returns))
  ELSE [S |-> A.S, defs |-> <<>>]

WithReturns(A, idx, domain, dt) ==
  RecordItem(A, ReturnsStruct(A, idx, domain, dt), idx, domain, dt)

\* Generator::generate_type: the item emitted for one datatype of a domain of
\* document idx (0-based).
generate_type(S, idx, domain, dt) ==
  IF as_enum(dt)
  THEN EnumItem(generate_enum(S, dt_name(dt), dt.vars), idx, domain, dt)
  ELSE WithReturns(generate_struct(S, idx, domain, dt, ident_name(dt),
                                   SelectIncluded(dt.params)),
                   idx, domain, dt)

(***************************************************************************)
(* Event Union Assembler                                                   *)
(***************************************************************************)
RECURSIVE EventsOfDomain(_, _)
EventsOfDomain(domain, types) ==
  IF types = <<>> THEN <<>>
  ELSE (IF is_event(Head(types)) /\ Included(Head(types))
        THEN <<[domain |-> domain, ev |-> Head(types)]>> ELSE <<>>)
       \o EventsOfDomain(domain, Tail(types))

RECURSIVE EventsOfDomains(_)
EventsOfDomains(doms) ==
  IF doms = <<>> THEN <<>>
  ELSE (IF Included(Head(doms)) THEN EventsOfDomain(Head(doms), Head(doms).types)
        ELSE <<>>)
       \o EventsOfDomains(Tail(doms))

\* The events generate_event_enums visits, in order.
RECURSIVE EventList(_)
EventList(pdl_seq) ==
  IF pdl_seq = <<>> THEN <<>>
  ELSE EventsOfDomains(Head(pdl_seq).domains) \o EventList(Tail(pdl_seq))

\* A variant of EventPayload whose boundary is off by one.
EventPayloadInclusive(size, path) ==
  IF size <= BoxThreshold THEN FieldTypeNew(path) ELSE FieldTypeNewBox(path)

\* The payload of one case: inline below the threshold, boxed otherwise.
EventPayload(size, path) ==
  IF size < BoxThreshold THEN FieldTypeNew(path) ELSE FieldTypeNewBox(path)

\* One case of the Event union (the body of the inner loop).
EventCase(domain, ev, ev_name) ==
  [name |-> to_camel_case(domain.name) \o to_camel_case(dt_name(ev)),
   rename |-> raw_name(domain, ev),
   payload |-> EventPayload(type_size[ev_name],
                            Path(1, protocol_mods[domains[domain.name] + 1],
                                 to_snake_case(domain.name), ev_name)),
   deprecated |-> ev.deprecated]

EventVariant(domain, ev) == EventCase(domain, ev, ident_name(ev))

ConsVariant(v, rest) == [panic |-> rest.panic, variants |-> <<v>> \o rest.variants]

RECURSIVE EventVariants(_)
EventVariants(evs) ==
  IF evs = <<>> THEN [panic |-> FALSE, variants |-> <<>>]
  ELSE IF \/ ~Has(domains, Head(evs).domain.name)
          \/ ~Has(type_size, ident_name(Head(evs).ev))
  THEN [panic |-> TRUE, variants |-> <<>>]
  ELSE ConsVariant(EventVariant(Head(evs).domain, Head(evs).ev),
                   EventVariants(Tail(evs)))

\* Generator::generate_event_enums
generate_event_enums(pdl_seq) == EventVariants(EventList(pdl_seq))

(***************************************************************************)
(* Orchestrator: Generator::compile_pdls                                   *)
(***************************************************************************)
RECURSIVE WorkOfDomain(_, _, _)
WorkOfDomain(idx, domain, types) ==
  IF types = <<>> THEN <<>>
  ELSE (IF Included(Head(types))
        THEN <<[idx |-> idx, domain |-> domain, dt |-> Head(types)]>> ELSE <<>>)
       \o WorkOfDomain(idx, domain, Tail(types))

RECURSIVE WorkOfDomains(_, _)
WorkOfDomains(idx, doms) ==
  IF doms = <<>> THEN <<>>
  ELSE (IF Included(Head(doms)) THEN WorkOfDomain(idx, Head(doms), Head(doms).types)
        ELSE <<>>)
       \o WorkOfDomains(idx, Tail(doms))

\* The (document index, domain, datatype) triples of the synthesis loops
\* (compile_pdls, generate_types, generate_domain), in loop order.
RECURSIVE Work(_, _)
Work(pdl_seq, idx) ==
  IF pdl_seq = <<>> THEN <<>>
  ELSE WorkOfDomains(idx, Head(pdl_seq).domains) \o Work(Tail(pdl_seq), idx + 1)

\* A variant of RegisterDomains that registers the first domain of a document
\* only.
RegisterFirstDomain(m, doms, idx) ==
  IF doms = <<>> THEN m ELSE Put(m, doms[1].name, idx)

\* self.domains.extend(pdl.domains.iter().map(|d| (d.name.to_string(), idx)))
RegisterDomains(m, doms, idx) ==
  PutAll(m, [i \in 1..Len(doms) |-> doms[i].name], idx)

\* The text written: the document modules, their items and the Event union.
OutputText(mods, items, evs) ==
  [mods |-> mods,
   items |-> [i \in 1..Len(items) |->
                [items[i] EXCEPT !.doc = protocol_mods[items[i].doc + 1]]],
   events |-> evs]

(***************************************************************************)
(* Inputs: the .pdl files handed to compile_pdls.  A file has a stem (<<>>  *)
(* when the path has none), may be unreadable, may fail to parse, and       *)
(* otherwise holds a document: a sequence of domains.  Domain names are     *)
(* unique across the files of one input.                                    *)
(***************************************************************************)
MaxRuns == 2
MaxSelfParams == 3

File(stem, readable, parses, doms) ==
  [stem |-> stem, readable |-> readable, parses |-> parses, domains |-> doms]

GoodFile(stem, doms) == File(stem, TRUE, TRUE, doms)

Mand(name, ty) == Param(name, ty, FALSE, FALSE, FALSE)

TypeDef(name, params) ==
  Datatype("Type", name, params, <<>>, TObject, FALSE, <<>>, FALSE, FALSE)

EnumDef(name, vs) ==
  Datatype("Type", name, <<>>, <<>>, TString, TRUE, vs, FALSE, FALSE)

Command(name, params, returns) ==
  Datatype("Command", name, params, returns, TObject, FALSE, <<>>, FALSE, FALSE)

Event(name, params, deprecated) ==
  Datatype("Event", name, params, <<>>, TObject, FALSE, <<>>, deprecated, FALSE)

Dom(name, types) == Domain(name, types, FALSE, FALSE)

nJs == <<"j","s">>
nBr == <<"b","r">>
nA == <<"a">>
nAB == <<"a","B">>
nC == <<"c">>
nBC == <<"b","C">>
nT == <<"t">>
nU == <<"u">>
nV == <<"v">>
nW == <<"w">>
nP == <<"p">>
nQ == <<"q">>
nR == <<"r">>
nX == <<"x">>

Qualified(dom, name) == dom \o <<".">> \o name

OptRef(names) == {<<>>} \cup {<<Mand(nR, TRef(n))>> : n \in names}

OptInt == {<<>>, <<Mand(nX, TInteger)>>}

\* One domain, three types t, u, v whose references run forwards, backwards,
\* in chains, to themselves and to an undeclared type w.
RefGraphInputs ==
  {<<GoodFile(nJs, <<Dom(nA, <<TypeDef(nT, st \o rt), TypeDef(nU, su \o ru),
                               TypeDef(nV, sv \o rv)>>)>>)>> :
     st \in OptInt, rt \in OptRef({nT, nU, nW}),
     su \in OptInt, ru \in OptRef({nT, nV}),
     sv \in OptInt, rv \in OptRef({nU})}

SelfParamTypes == {TRef(nT), TRef(nU), TInteger}

ParamNames == <<nP, nQ, nR, nX>>

SelfParamLists ==
  UNION {{[i \in 1..n |-> Mand(ParamNames[((i - 1) % Len(ParamNames)) + 1], tys[i])] :
            tys \in [1..n -> SelfParamTypes]} : n \in 1..MaxSelfParams}

\* A type, command or event t with up to MaxSelfParams fields, any number of
\* which refer to t itself, followed by the type u.
SelfRefInputs ==
  {<<GoodFile(nJs, <<Dom(nA, <<dt, TypeDef(nU, <<Mand(nX, TInteger)>>)>>)>>)>> :
     dt \in {TypeDef(nT, ps) : ps \in SelfParamLists}
            \cup {Event(nT, ps, FALSE) : ps \in SelfParamLists}
            \cup {Command(nT, ps, rs) : ps \in SelfParamLists,
                                       rs \in {<<>>, <<Mand(nR, TRef(nT))>>}}}

Layouts(da, db) ==
  {<<GoodFile(nJs, <<da, db>>)>>,
   <<GoodFile(nJs, <<da>>), GoodFile(nBr, <<db>>)>>,
   <<GoodFile(nJs, <<db>>), GoodFile(nBr, <<da>>)>>}

CrossRefTypes ==
  {TRef(Qualified(nA, nT)), TArrayOf(TRef(Qualified(nA, nT))), TRef(nT),
   TRef(Qualified(nAB, nU)), TRef(Qualified(nC, nT)), TRef(Qualified(nA, nW)),
   TArrayOf(TInteger), TArrayOf(TArrayOf(TRef(Qualified(nA, nT))))}

\* Domains a and aB in one document or in two, referring to each other's types
\* by qualified names.
CrossDocInputs ==
  UNION {Layouts(Dom(nA, <<TypeDef(nT, <<Mand(nX, TInteger)>> \o ra)>>),
                 Dom(nAB, <<TypeDef(nU, <<Mand(nP, ty)>>)>>)) :
           ra \in OptRef({Qualified(nAB, nU)}), ty \in CrossRefTypes}

Repeat(n, ty) == [i \in 1..n |-> Mand(<<"f">> \o <<Lowers[i]>>, ty)]

\* Field lists of sizes 0, 128, 199 and 200.
EventParamLists ==
  {<<>>, Repeat(4, TAny), Repeat(6, TAny) \o Repeat(7, TBoolean),
   Repeat(6, TAny) \o Repeat(8, TBoolean)}

\* One event in each of the domains a and aB.
EventInputs ==
  UNION {{<<GoodFile(nJs, <<da, db>>)>>,
          <<GoodFile(nJs, <<da>>), GoodFile(nBr, <<db>>)>>} :
           da \in {Dom(nA, <<Event(n, ps, dep)>>) :
                     n \in {nBC, nC}, ps \in EventParamLists, dep \in BOOLEAN},
           db \in {Dom(nAB, <<Event(n, ps, FALSE)>>) :
                     n \in {nBC, nC}, ps \in EventParamLists}}

VariantNames == {<<"a","b">>, <<"a","B">>, <<"a","_","b">>}

VariantLists ==
  {<<v>> : v \in VariantNames} \cup {<<v, w>> : v \in VariantNames, w \in VariantNames}

\* An enum type, or a record with an inline enum field.
EnumInputs ==
  {<<GoodFile(nJs, <<Dom(nA, <<dt>>)>>)>> :
     dt \in {EnumDef(nT, vs) : vs \in VariantLists}
            \cup {TypeDef(nT, <<Mand(nP, TEnum(vs))>>) : vs \in VariantLists}}

SimpleDomains(name) == <<Dom(name, <<TypeDef(nT, <<Mand(nX, TInteger)>>)>>)>>

FileStates(name, stem) ==
  {GoodFile(stem, SimpleDomains(name)), File(stem, FALSE, TRUE, SimpleDomains(name)),
   File(stem, TRUE, FALSE, SimpleDomains(name)), File(<<>>, TRUE, TRUE, SimpleDomains(name))}

\* Two files, each readable or not, parsing or not, with or without a stem.
ErrorInputs == {<<f, g>> : f \in FileStates(nA, nJs), g \in FileStates(nAB, nBr)}

Flags == {<<FALSE, FALSE>>, <<TRUE, FALSE>>, <<FALSE, TRUE>>}

\* Domains a and aB, each with an event; the domain aB, the events and a field
\* may be deprecated or experimental.
FlaggedInputs ==
  {<<GoodFile(nJs,
       <<Dom(nA, <<Datatype("Event", nC,
                            <<Mand(nX, TInteger),
                              Param(nP, TInteger, TRUE, fp[1], fp[2])>>,
                            <<>>, TObject, FALSE, <<>>, fe[1], fe[2])>>),
         Domain(nAB, <<Event(nBC, <<>>, FALSE)>>, fd[1], fd[2])>>)>> :
     fp \in Flags, fe \in Flags, fd \in Flags}

\* Domain a with a type u and a type, command or event c; c, its parameter p
\* (an inline enum or a reference to u) and, for a command, its returns
\* parameter q may be deprecated or experimental.
FlaggedRecordInputs ==
  {<<GoodFile(nJs,
       <<Dom(nA, <<TypeDef(nU, <<Mand(nX, TInteger)>>),
                   Datatype(kind, nC,
                            <<Mand(nX, TInteger), Param(nP, ty, FALSE, fp[1], fp[2])>>,
                            IF kind = "Command"
                            THEN <<Param(nQ, ty, FALSE, fp[1], fp[2]),
                                   Mand(nR, TInteger)>>
                            ELSE <<>>,
                            TObject, FALSE, <<>>, fe[1], fe[2])>>)>>)>> :
     kind \in {"Type", "Command", "Event"},
     ty \in {TEnum(<<<<"o","n">>, <<"o","f","f">>>>), TRef(nU)},
     fp \in Flags, fe \in Flags}

nDoThing == <<"d","o","T","h","i","n","g">>

OnOff == TEnum(<<<<"o","n">>, <<"o","f","f">>>>)

\* A type, command or event named doThing or t whose field x is an inline enum,
\* an array of an inline enum or an integer; the command may return an inline
\* enum x as well.
HoistInputs ==
  {<<GoodFile(nJs, <<Dom(nA, <<dt>>)>>)>> :
     dt \in UNION {{TypeDef(n, <<Mand(nX, ty)>>), Event(n, <<Mand(nX, ty)>>, FALSE),
                    Command(n, <<Mand(nX, ty)>>, <<>>),
                    Command(n, <<Mand(nX, ty)>>, <<Mand(nX, OnOff)>>)} :
                     n \in {nDoThing, nT},
                     ty \in {OnOff, TArrayOf(OnOff), TInteger}}}

Alias(name, extends) ==
  Datatype("Type", name, <<>>, <<>>, extends, FALSE, <<>>, FALSE, FALSE)

AliasTargets ==
  {TInteger, TNumber, TBoolean, TString, TObject, TAny, TBinary,
   TArrayOf(TInteger), TArrayOf(TRef(nU)), TRef(nU)}

Deprecated(name, ty) == Param(name, ty, FALSE, TRUE, FALSE)

\* A type u, an alias t over each kind of target, and a type, command or event
\* v with no parameters at all or with deprecated ones only.
AliasInputs ==
  {<<GoodFile(nJs, <<Dom(nA, <<TypeDef(nU, <<Mand(nX, TInteger)>>),
                               Alias(nT, ext), dt>>)>>)>> :
     ext \in AliasTargets,
     dt \in UNION {{Datatype(kind, nV, ps, <<>>, TString, FALSE, <<>>, FALSE, FALSE),
                    Datatype("Command", nV, ps, <<Mand(nX, TInteger)>>, TObject,
                             FALSE, <<>>, FALSE, FALSE)} :
                     kind \in {"Type", "Command", "Event"},
                     ps \in {<<>>, <<Deprecated(nX, TInteger)>>}}}

Inputs ==
  AliasInputs \cup RefGraphInputs \cup SelfRefInputs \cup CrossDocInputs \cup EventInputs
  \cup EnumInputs \cup HoistInputs \cup ErrorInputs \cup FlaggedInputs
  \cup FlaggedRecordInputs

\* The inputs explored: every input under the default configuration; under the
\* other configurations those on which the configuration can make a difference
\* (the flags only filter flagged items, the output location only decides
\* whether the call starts).
InputsFor(experimental, deprecated, location) ==
  IF experimental /\ ~deprecated /\ location = "none" THEN Inputs
  ELSE FlaggedInputs \cup FlaggedRecordInputs \cup ErrorInputs

(***************************************************************************)
(* The output location and the formatter                                   *)
(***************************************************************************)
\* target.join(format!("{}.rs", mod_name)) with the default mod_name "cdp"
TargetFile == <<"c","d","p",".","r","s">>

\* Other entries the output location may hold.
OtherFiles == {<<"l","i","b",".","r","s">>, <<"a",".","t","x","t">>}

RsSuffix == <<".","r","s">>

\* str::ends_with
EndsWith(s, suffix) ==
  /\ Len(s) >= Len(suffix)
  /\ SubSeq(s, Len(s) - Len(suffix) + 1, Len(s)) = suffix

\* exit_code while the process has not exited
NotExited == -1

\* ExitStatus::code() of a process ended by a signal
NoCode == -1

\* Command::output(): the formatter could not be started, or it ran and ended
\* with a status code (0, 1, 3) or by a signal.
RustfmtResults ==
  {[spawned |-> FALSE, code |-> NoCode]}
  \cup {[spawned |-> TRUE, code |-> c] : c \in {0, 1, 3, NoCode}}

(***************************************************************************)
(* Initial state: Generator::default(), nothing compiled yet.              *)
(***************************************************************************)
Init ==
  /\ with_experimental = TRUE
  /\ with_deprecated = FALSE
  /\ out_dir = "none"
  /\ protocol_mods = <<>>
  /\ domains = EmptyMap
  /\ type_size = EmptyMap
  /\ ref_sizes = <<>>
  /\ pc = "idle"
  /\ pdls = <<>>
  /\ next_path = 1
  /\ protocols = <<>>
  /\ work = <<>>
  /\ modules = <<>>
  /\ refs = <<>>
  /\ events = <<>>
  /\ failure = ""
  /\ target = "none"
  /\ artifact = <<>>
  /\ wrote = FALSE
  /\ calls = <<>>
  /\ runs = 0
  /\ first_output = <<>>
  /\ dir = {}
  /\ formatted = <<>>
  /\ exit_code = NotExited

config_vars == <<with_experimental, with_deprecated, out_dir>>

fmt_vars == <<dir, formatted, exit_code>>

generator_vars == <<protocol_mods, domains, type_size, ref_sizes>>

\* Generator::out_dir
SetOutDir ==
  /\ pc = "idle" /\ runs = 0 /\ out_dir = "none"
  /\ out_dir' = "set"
  /\ UNCHANGED <<with_experimental, with_deprecated, generator_vars, pc, pdls,
                 next_path, protocols, work, modules, refs, events, failure,
                 target, artifact, wrote, calls, runs, first_output, fmt_vars>>

\* Generator::experimental
SetExperimental ==
  /\ pc = "idle" /\ runs = 0
  /\ \E b \in BOOLEAN : b # with_experimental /\ with_experimental' = b
  /\ UNCHANGED <<with_deprecated, out_dir, generator_vars, pc, pdls,
                 next_path, protocols, work, modules, refs, events, failure,
                 target, artifact, wrote, calls, runs, first_output, fmt_vars>>

\* Generator::deprecated
SetDeprecated ==
  /\ pc = "idle" /\ runs = 0
  /\ \E b \in BOOLEAN : b # with_deprecated /\ with_deprecated' = b
  /\ UNCHANGED <<with_experimental, out_dir, generator_vars, pc, pdls,
                 next_path, protocols, work, modules, refs, events, failure,
                 target, artifact, wrote, calls, runs, first_output, fmt_vars>>

\* Entry of compile_pdls: resolve `target` from out_dir, else from OUT_DIR.
Start(input, env_out_dir) ==
  /\ runs' = runs + 1
  /\ pdls' = input
  /\ target' = IF out_dir = "set" THEN "out_dir"
               ELSE IF env_out_dir THEN "env" ELSE "none"
  /\ IF target' = "none"
     THEN pc' = "err" /\ failure' = "out_dir"
     ELSE pc' = "read" /\ failure' = ""
  /\ next_path' = 1
  /\ protocols' = <<>>
  /\ work' = <<>>
  /\ modules' = <<>>
  /\ refs' = <<>>
  /\ events' = <<>>
  /\ wrote' = FALSE
  /\ calls' = <<>>
  /\ dir' = {}
  /\ formatted' = <<>>
  /\ UNCHANGED <<config_vars, generator_vars, artifact, first_output, exit_code>>

\* The first compile_pdls call on the Generator.
Compile ==
  /\ pc = "idle"
  /\ \E input \in InputsFor(with_experimental, with_deprecated, out_dir),
        env_out_dir \in BOOLEAN : Start(input, env_out_dir)

\* A further compile_pdls call on the same Generator with the same files,
\* after the previous call returned.
Recompile ==
  /\ pc \in {"done", "err"}
  /\ runs < MaxRuns
  /\ \E env_out_dir \in BOOLEAN : Start(pdls, env_out_dir)

\* A variant of Read that goes on after a failed read.
ReadLenient(file) ==
  IF file.stem = <<>>
  THEN /\ pc' = "err" /\ failure' = "file_name"
       /\ UNCHANGED <<protocol_mods, next_path>>
  ELSE /\ protocol_mods' = Append(protocol_mods, file.stem)
       /\ failure' = IF file.readable THEN failure ELSE "read"
       /\ IF next_path = Len(pdls)
          THEN pc' = "parse" /\ next_path' = 1
          ELSE pc' = "read" /\ next_path' = next_path + 1

\* The body of one iteration of the read loop.
Read(file) ==
  IF file.stem = <<>>
  THEN /\ pc' = "err" /\ failure' = "file_name"
       /\ UNCHANGED <<protocol_mods, next_path>>
  ELSE /\ protocol_mods' = Append(protocol_mods, file.stem)
       /\ IF ~file.readable
          THEN pc' = "err" /\ failure' = "read" /\ UNCHANGED next_path
          ELSE /\ failure' = failure
               /\ IF next_path = Len(pdls)
                  THEN pc' = "parse" /\ next_path' = 1
                  ELSE pc' = "read" /\ next_path' = next_path + 1

\* One iteration of `for path in pdls`: file stem, push the module name, read.
ReadFile ==
  /\ pc = "read"
  /\ Read(pdls[next_path])
  /\ UNCHANGED <<config_vars, domains, type_size, ref_sizes, pdls, protocols, work,
                 modules, refs, events, target, artifact, wrote, calls, runs,
                 first_output, fmt_vars>>

Parse(file, idx) ==
  IF ~file.parses
  THEN /\ pc' = "err" /\ failure' = "parse"
       /\ UNCHANGED <<domains, protocols, next_path, work>>
  ELSE /\ domains' = RegisterDomains(domains, file.domains, idx)
       /\ protocols' = Append(protocols, [domains |-> file.domains])
       /\ failure' = failure
       /\ IF next_path = Len(pdls)
          THEN pc' = "generate" /\ next_path' = 1 /\ work' = Work(protocols', 0)
          ELSE pc' = "parse" /\ next_path' = next_path + 1 /\ work' = work

\* One iteration of `for (idx, input) in inputs`: parse, register the domains.
\* After the last one `work` holds the synthesis loops' iterations.
ParseDoc ==
  /\ pc = "parse"
  /\ Parse(pdls[next_path], next_path - 1)
  /\ UNCHANGED <<config_vars, protocol_mods, type_size, ref_sizes, pdls, modules, refs,
                 events, target, artifact, wrote, calls, runs, first_output, fmt_vars>>

\* The effect of one generate_type call with result R.
Generated(R) ==
  /\ type_size' = R.S.type_size
  /\ ref_sizes' = R.S.ref_sizes
  /\ calls' = R.S.calls
  /\ IF R.S.panic
     THEN pc' = "panic" /\ failure' = "unknown_domain" /\ UNCHANGED <<modules, work>>
     ELSE /\ pc' = "generate" /\ failure' = failure
          /\ modules' = Append(modules, R.item)
          /\ work' = Tail(work)

\* One call of generate_type from the synthesis loops.
GenerateType ==
  /\ pc = "generate"
  /\ work # <<>>
  /\ Generated(generate_type([type_size |-> type_size, ref_sizes |-> ref_sizes,
                              calls |-> calls, panic |-> FALSE],
                             Head(work).idx, Head(work).domain, Head(work).dt))
  /\ UNCHANGED <<config_vars, protocol_mods, domains, pdls, next_path, protocols, refs,
                 events, target, artifact, wrote, runs, first_output, fmt_vars>>

\* The synthesis loops have visited every document.
SynthesisComplete == work = <<>>

\* std::mem::swap(&mut refs, &mut self.ref_sizes): what the worklist becomes.
SwappedRefSizes == <<>>

\* Start of the fix-up pass.
FixupStart ==
  /\ pc = "generate"
  /\ SynthesisComplete
  /\ refs' = ref_sizes
  /\ ref_sizes' = SwappedRefSizes
  /\ pc' = "fixup"
  /\ UNCHANGED <<config_vars, protocol_mods, domains, type_size, pdls, next_path,
                 protocols, work, modules, events, failure, target, artifact, wrote,
                 calls, runs, first_output, fmt_vars>>

Fix(name, reff) ==
  IF ~Has(type_size, reff)
  THEN /\ pc' = "panic" /\ failure' = "unresolved_ref"
       /\ UNCHANGED <<type_size, refs>>
  ELSE /\ type_size' =
            store_size([type_size |-> type_size, ref_sizes |-> ref_sizes,
                        calls |-> calls, panic |-> FALSE],
                       name, Left(type_size[reff])).type_size
       /\ refs' = Tail(refs)
       /\ pc' = "fixup" /\ failure' = failure

\* One iteration of `for (name, reff) in refs`.
FixRef ==
  /\ pc = "fixup"
  /\ refs # <<>>
  /\ Fix(Head(refs)[1], Head(refs)[2])
  /\ UNCHANGED <<config_vars, protocol_mods, domains, ref_sizes, pdls, next_path,
                 protocols, work, modules, events, target, artifact, wrote, calls,
                 runs, first_output, fmt_vars>>

\* A variant of FixupComplete that lets the pass be left early.
FixupCompleteEarly == TRUE

\* The fix-up pass has drained its list.
FixupComplete == refs = <<>>

\* The effect of the generate_event_enums call with result R.
Assembled(R) ==
  IF R.panic
  THEN pc' = "panic" /\ failure' = "event_size" /\ events' = events
  ELSE pc' = "write" /\ failure' = failure /\ events' = R.variants

\* generate_event_enums, called once the fix-up loop is over.
GenerateEventEnums ==
  /\ pc = "fixup"
  /\ FixupComplete
  /\ Assembled(generate_event_enums(protocols))
  /\ UNCHANGED <<config_vars, generator_vars, pdls, next_path, protocols, work, modules,
                 refs, target, artifact, wrote, calls, runs, first_output, fmt_vars>>

\* fs::write(output, stream.to_string())?  After it the output location holds
\* <mod>.rs and whatever else was there.
Write ==
  /\ pc = "write"
  /\ \E ok \in BOOLEAN, others \in SUBSET OtherFiles :
       IF ok
       THEN /\ artifact' = OutputText([i \in 1..Len(protocols) |-> protocol_mods[i]],
                                      modules, events)
            /\ wrote' = TRUE
            /\ first_output' = IF runs = 1 THEN artifact' ELSE first_output
            /\ dir' = {TargetFile} \cup others
            /\ pc' = "fmt" /\ failure' = failure
       ELSE /\ pc' = "err" /\ failure' = "write"
            /\ others = {}
            /\ UNCHANGED <<artifact, wrote, first_output, dir>>
  /\ UNCHANGED <<config_vars, generator_vars, pdls, next_path, protocols, work, modules,
                 refs, events, target, calls, runs, formatted, exit_code>>

\* A variant of Rustfmt that exits with 1 whatever the formatter's status.
RustfmtExitOne(result) ==
  IF result.spawned /\ result.code = 0
  THEN pc' = "fmt" /\ failure' = failure /\ exit_code' = exit_code
  ELSE pc' = "exit" /\ failure' = "rustfmt" /\ exit_code' = 1

\* The `match result` of fmt for the rustfmt run on one file.
Rustfmt(result) ==
  IF ~result.spawned
  THEN pc' = "exit" /\ failure' = "rustfmt" /\ exit_code' = 1
  ELSE IF result.code = 0
  THEN pc' = "fmt" /\ failure' = failure /\ exit_code' = exit_code
  ELSE /\ pc' = "exit" /\ failure' = "rustfmt"
       /\ exit_code' = IF result.code = NoCode THEN 1 ELSE result.code

\* The body of `for entry in dir` of fmt.
FmtEntry(file) ==
  /\ dir' = dir \ {file}
  /\ IF ~EndsWith(file, RsSuffix)
     THEN UNCHANGED <<pc, failure, formatted, exit_code>>
     ELSE \E result \in RustfmtResults :
            /\ formatted' = Append(formatted, [file |-> file, result |-> result])
            /\ Rustfmt(result)

\* One iteration of `for entry in dir` of fmt.
Fmt ==
  /\ pc = "fmt"
  /\ \E file \in dir : FmtEntry(file)
  /\ UNCHANGED <<config_vars, generator_vars, pdls, next_path, protocols, work, modules,
                 refs, events, target, artifact, wrote, calls, runs, first_output>>

\* fmt has visited every entry.
FmtComplete == dir = {}

\* Ok(()) of compile_pdls.
Return ==
  /\ pc = "fmt"
  /\ FmtComplete
  /\ pc' = "done"
  /\ UNCHANGED <<config_vars, generator_vars, pdls, next_path, protocols, work, modules,
                 refs, events, failure, target, artifact, wrote, calls, runs,
                 first_output, fmt_vars>>

Next ==
  \/ SetOutDir
  \/ SetExperimental
  \/ SetDeprecated
  \/ Compile
  \/ Recompile
  \/ ReadFile
  \/ ParseDoc
  \/ GenerateType
  \/ FixupStart
  \/ FixRef
  \/ GenerateEventEnums
  \/ Write
  \/ Fmt
  \/ Return

Spec == Init /\ [][Next]_vars

(***************************************************************************)
(* Properties                                                              *)
(***************************************************************************)
\* The fix-up pass of the running call has completed.
AfterFixup ==
  \/ pc = "fixup" /\ refs = <<>>
  \/ pc \in {"write", "fmt", "done", "exit"}
  \/ pc = "err" /\ failure = "write"
  \/ pc = "panic" /\ failure = "event_size"

\* generate_event_enums of the running call has returned the union.
AfterEvents ==
  \/ pc \in {"write", "fmt", "done", "exit"}
  \/ pc = "err" /\ failure = "write"

RECURSIVE SumSeq(_)
SumSeq(ns) == IF ns = <<>> THEN 0 ELSE Head(ns) + SumSeq(Tail(ns))

\* What one resolved field contributes to its record once sizes are final: the
\* fixed constant, or for a deferred reference the size of the referenced type.
FinalContribution(c) ==
  IF c.size.side = "L" THEN c.size.size
  ELSE IF Has(type_size, c.size.name) THEN type_size[c.size.name] ELSE 0

\* The sum of the contributions of the fields of record `name` of `item`.
OwnFieldSum(item, name) ==
  SumSeq([i \in 1..Len(calls) |->
            IF /\ calls[i].doc = item.doc /\ to_snake_case(calls[i].dom) = item.dom
               /\ calls[i].struct = name /\ ~calls[i].alias
            THEN FinalContribution(calls[i]) ELSE 0])

\* No two definitions emitted so far have the same name, so that each has a
\* size-table entry of its own.
DistinctNames ==
  \A i, k \in 1..Len(modules) :
    \A j \in 1..Len(modules[i].defs), l \in 1..Len(modules[k].defs) :
      modules[i].defs[j].name = modules[k].defs[l].name => i = k /\ j = l

\* The deferred references logged so far, as edges from the referring record
\* to the referenced type.
DeferredEdge(a, b) ==
  \E i \in 1..Len(calls) :
    calls[i].size.side = "R" /\ calls[i].struct = a /\ calls[i].size.name = b

DeferredNames ==
  {calls[i].struct : i \in 1..Len(calls)}
  \cup {calls[i].size.name : i \in {k \in 1..Len(calls) : calls[k].size.side = "R"}}

\* The names reached from the set `from` along at most k deferred references.
RECURSIVE ReachedWithin(_, _)
ReachedWithin(from, k) ==
  IF k = 0 THEN {}
  ELSE {b \in DeferredNames : \E a \in from : DeferredEdge(a, b)}
       \cup ReachedWithin({b \in DeferredNames : \E a \in from : DeferredEdge(a, b)},
                          k - 1)

\* No record refers to itself through a chain of deferred references (such
\* a record has no finite size).
AcyclicRefs ==
  \A a \in DeferredNames : a \notin ReachedWithin({a}, Cardinality(DeferredNames))

\* C1: after the fix-up pass, the size-table entry of every generated record
\* equals the sum of the contributions of the record's own fields: the fixed
\* constant of each scalar, inline-enum, array and self-reference field plus,
\* for each other Ref field, the size-table entry of the referenced type;
\* whatever the declaration order.  Stated for the first call on a Generator
\* and for inputs whose generated types have distinct names and no cyclic
\* references.
C1_SizeIsSumOfOwnFields ==
  (AfterFixup /\ runs = 1 /\ DistinctNames /\ AcyclicRefs) =>
    \A i \in 1..Len(modules) : \A j \in 1..Len(modules[i].defs) :
      modules[i].defs[j].def = "struct" =>
        /\ Has(type_size, modules[i].defs[j].name)
        /\ type_size[modules[i].defs[j].name]
             = OwnFieldSum(modules[i], modules[i].defs[j].name)

\* C2: every case of the Event union embeds its event record inline if and
\* only if the event's size-table entry is below 200, and otherwise wraps it
\* in exactly one Box.
C2_InlineIffBelowThreshold ==
  AfterEvents =>
    \A i \in 1..Len(events) :
      /\ Has(type_size, events[i].payload.of.ty)
      /\ events[i].payload.boxes \in {0, 1}
      /\ ~events[i].payload.vec
      /\ events[i].payload.boxes = 0 <=> type_size[events[i].payload.of.ty] < 200

\* A union with an inline case of size 199 and a boxed case of size 200.
C2_BothSidesOfBoundary ==
  /\ AfterEvents
  /\ \E i, j \in 1..Len(events) :
       /\ type_size[events[i].payload.of.ty] = 199 /\ events[i].payload.boxes = 0
       /\ type_size[events[j].payload.of.ty] = 200 /\ events[j].payload.boxes = 1

\* The logged resolution c is of a Ref that generate_field_type took for a
\* reference to the enclosing datatype (`name == parent`).
SelfReference(c) == c.type.k = "Ref" /\ c.type.name = c.parent

\* The logged resolution c is of a field whose type is a Ref naming the
\* enclosing datatype: by its bare name, or qualified with the enclosing domain.
NamesEnclosing(c) ==
  /\ c.type.k = "Ref"
  /\ LastSegment(c.type.name) = c.parent
  /\ PathPrefix(c.type.name) \in {<<>>, c.dom}

\* C3: every field whose type is a Ref naming the enclosing datatype is
\* resolved to the datatype under exactly one Box, adds the pointer size to the
\* datatype's size-table entry and pushes nothing onto the deferred worklist,
\* however many such fields the datatype has.
C3_SelfReferenceBoxedOnce ==
  \A i \in 1..Len(calls) :
    NamesEnclosing(calls[i]) =>
      /\ calls[i].ty.boxes = 1
      /\ ~calls[i].ty.vec
      /\ calls[i].ty.of.ty = to_camel_case(calls[i].parent)
      /\ calls[i].added = 8
      /\ calls[i].pushed = 0

\* The logged resolution c is of a reference that projected_type resolved.
IsProjected(c) ==
  \/ c.type.k = "Ref" /\ ~SelfReference(c)
  \/ c.type.k = "ArrayOf" /\ c.type.of.k = "Ref"

ProjectedName(c) == IF c.type.k = "Ref" THEN c.type.name ELSE c.type.of.name

\* The input document (1-based) that declares the domain `name`.
DocumentOf(name) ==
  CHOOSE k \in 1..Len(pdls) :
    \E d \in 1..Len(pdls[k].domains) : pdls[k].domains[d].name = name

\* The path a reference to `prefix`.`ty` made in document `doc` is to have.
ExpectedPath(doc, prefix, ty) ==
  IF prefix = <<>> THEN Path(0, <<>>, <<>>, ty)
  ELSE IF DocumentOf(prefix) = doc THEN Path(1, <<>>, to_snake_case(prefix), ty)
  ELSE Path(2, pdls[DocumentOf(prefix)].stem, to_snake_case(prefix), ty)

\* C4: the path of a domain-qualified reference has the referenced document's
\* module segment (super::super::<document>::<domain>::<Type>) if and only if
\* the referencing and the referenced domain come from different input
\* documents; within one document it is super::<domain>::<Type>; an
\* unqualified reference is the bare type name.
C4_DocumentSegmentIffOtherDocument ==
  \A i \in 1..Len(calls) :
    IsProjected(calls[i]) =>
      calls[i].ty.of = ExpectedPath(calls[i].doc + 1,
                                    PathPrefix(ProjectedName(calls[i])),
                                    to_camel_case(LastSegment(ProjectedName(calls[i]))))

\* References between the two documents in both directions, one of them from an
\* array.
C4_CrossDocumentReferences ==
  \E i, j \in 1..Len(calls) :
    /\ calls[i].doc = 0 /\ calls[j].doc = 1
    /\ IsProjected(calls[i]) /\ calls[i].ty.of.supers = 2
    /\ calls[i].ty.of.doc = pdls[2].stem
    /\ IsProjected(calls[j]) /\ calls[j].ty.of.supers = 2
    /\ calls[j].ty.of.doc = pdls[1].stem
    /\ calls[j].type.k = "ArrayOf"

\* The included datatypes of the input, as (document, domain, datatype)
\* positions.
IncludedDatatypes ==
  UNION {UNION {{<<k, d, t>> : t \in {t \in 1..Len(pdls[k].domains[d].types) :
                                        /\ Included(pdls[k].domains[d])
                                        /\ Included(pdls[k].domains[d].types[t])}} :
                  d \in 1..Len(pdls[k].domains)} :
           k \in 1..Len(pdls)}

\* The fix-up pass of the running call has started.
FixupStarted == pc = "fixup" \/ failure = "unresolved_ref" \/ AfterFixup

\* C5: the fix-up pass starts only after every included datatype of every
\* included domain of every document has been synthesized; the Event union is
\* assembled only after the fix-up pass has completed, with the deferred
\* worklist empty.
C5_SynthesisThenFixupThenEvents ==
  /\ FixupStarted =>
       /\ Len(protocols) = Len(pdls)
       /\ work = <<>>
       /\ Len(modules) = Cardinality(IncludedDatatypes)
  /\ (AfterEvents \/ failure = "event_size") => refs = <<>> /\ ref_sizes = <<>>

\* The union is assembled in a call that synthesized two datatypes and
\* deferred a size.
C5_EventsAfterDeferredSizes ==
  /\ pc = "write"
  /\ Len(modules) = 2
  /\ \E i \in 1..Len(calls) : calls[i].pushed = 1
  /\ events # <<>>

\* The names of the definitions emitted so far.
EmittedNames ==
  UNION {{modules[i].defs[j].name : j \in 1..Len(modules[i].defs)} :
           i \in 1..Len(modules)}

\* The deferred reference logged as c names a type generated in this call: a
\* definition of that name was emitted in the domain the reference names (the
\* referring domain when the name is unqualified).
TargetGenerated(c) ==
  \E i \in 1..Len(modules) :
    /\ modules[i].dom
         = to_snake_case(IF PathPrefix(ProjectedName(c)) = <<>> THEN c.dom
                         ELSE PathPrefix(ProjectedName(c)))
    /\ \E j \in 1..Len(modules[i].defs) : modules[i].defs[j].name = c.size.name

AllTargetsGenerated ==
  \A i \in 1..Len(calls) : calls[i].size.side = "R" => TargetGenerated(calls[i])

\* C6: when every non-self Ref field names a type generated in the same call,
\* the fix-up pass does not fail and afterwards every generated named type has
\* a size-table entry; the pass fails only at a worklist entry whose referenced
\* type was never generated.  Stated for inputs without cyclic references.
C6_FixupCompletesWhenTargetsGenerated ==
  (FixupStarted /\ AcyclicRefs) =>
    /\ failure = "unresolved_ref" => Head(refs)[2] \notin EmittedNames
    /\ AllTargetsGenerated =>
         /\ failure # "unresolved_ref"
         /\ AfterFixup => \A n \in EmittedNames : Has(type_size, n)

\* C7: a second compile_pdls call on the same Generator with the same files
\* and configuration writes the same text as the first.
C7_SecondRunSameOutput ==
  (runs = 2 /\ wrote /\ first_output # <<>>) => artifact = first_output

\* The enum definitions emitted so far.
EmittedEnums ==
  UNION {{modules[i].defs[j] : j \in {j \in 1..Len(modules[i].defs) :
                                        modules[i].defs[j].def = "enum"}} :
           i \in 1..Len(modules)}

\* Wire strings: the variant names of the inputs and one that is none.
WireStrings == VariantNames \cup {<<"z">>}

\* C8: for every generated enum and every wire string s naming one of its
\* variants, as_str(from_str(s)) = s; for any other s, from_str(s) is an error
\* carrying s.
C8_EnumStringRoundTrip ==
  \A e \in EmittedEnums : \A s \in WireStrings :
    IF \E i \in 1..Len(e.strs) : e.strs[i] = s
    THEN from_str(e, s).ok /\ as_str(e, from_str(e, s).var) = s
    ELSE ~from_str(e, s).ok /\ from_str(e, s).err = s

\* The included events of the included domains of the input, as (document,
\* domain, datatype) positions.
IncludedEvents ==
  {p \in IncludedDatatypes : is_event(pdls[p[1]].domains[p[2]].types[p[3]])}

\* C9: the Event union has exactly one case per included event of every
\* included domain of every document and no other case, each named by the
\* camel-cased domain name followed by the camel-cased event name, and no two
\* cases have the same name.
C9_OneUniquelyNamedCasePerEvent ==
  AfterEvents =>
    /\ Len(events) = Cardinality(IncludedEvents)
    /\ \A p \in IncludedEvents :
         \E i \in 1..Len(events) :
           /\ events[i].rename = raw_name(pdls[p[1]].domains[p[2]],
                                          pdls[p[1]].domains[p[2]].types[p[3]])
           /\ events[i].name
                = to_camel_case(pdls[p[1]].domains[p[2]].name)
                  \o to_camel_case(pdls[p[1]].domains[p[2]].types[p[3]].name)
    /\ \A i, j \in 1..Len(events) : events[i].name = events[j].name => i = j

\* C10: a call that fails before the write step writes no artifact; when the
\* output location is unset, a file cannot be read or a document does not
\* parse, the call returns the error before anything is synthesized.
C10_NoArtifactOnEarlyFailure ==
  /\ failure \in {"out_dir", "file_name", "read", "parse", "unknown_domain",
                   "unresolved_ref", "event_size"}
       => ~wrote /\ pc \in {"err", "panic"}
  /\ failure \in {"out_dir", "read", "parse"}
       => pc = "err" /\ modules = <<>> /\ calls = <<>> /\ events = <<>>

\* The second document fails to parse after the first was parsed and its
\* domains registered; nothing has been written.
C10_SecondDocumentFailsToParse ==
  /\ failure = "parse"
  /\ protocols # <<>>
  /\ domains # EmptyMap
  /\ artifact = <<>>

\* The rustfmt run r ended with a non-zero status code.
NonZeroStatus(r) == r.result.spawned /\ r.result.code \notin {0, NoCode}

\* C11: the formatter runs only after the artifact has been written and once
\* per generated file of the output location; when a run ends with a non-zero
\* status the process exits with that status, and compile_pdls does not
\* return Ok.
C11_FormatAfterWriteExitWithStatus ==
  /\ formatted # <<>> => wrote
  /\ \A i, j \in 1..Len(formatted) : formatted[i].file = formatted[j].file => i = j
  /\ pc = "done" => \E i \in 1..Len(formatted) : formatted[i].file = TargetFile
  /\ \A i \in 1..Len(formatted) :
       NonZeroStatus(formatted[i]) =>
         /\ i = Len(formatted)
         /\ pc = "exit"
         /\ exit_code = formatted[i].result.code

\* The formatter succeeds on one file and ends with status 3 on the next.
C11_SecondFileFailsWithStatus ==
  /\ wrote
  /\ Len(formatted) = 2
  /\ formatted[2].result = [spawned |-> TRUE, code |-> 3]
  /\ \E i \in 1..2 : formatted[i].file = TargetFile
  /\ exit_code = 3

\* The name a hoisted enum is to have: the camel-cased parent name followed by
\* the camel-cased field name.
HoistedName(parent, field) == to_camel_case(parent) \o to_camel_case(field)

\* The definitions emitted with the record `struct` of document doc (0-based)
\* and domain dom.
DefsWith(doc, dom, struct) ==
  UNION {{modules[i].defs[j] : j \in 1..Len(modules[i].defs)} :
           i \in {i \in 1..Len(modules) :
                    /\ modules[i].doc = doc /\ modules[i].dom = to_snake_case(dom)
                    /\ \E j \in 1..Len(modules[i].defs) :
                         modules[i].defs[j].name = struct}}

\* C12: for every included parameter whose type is an inline Enum, of a
\* datatype or of a command's returns list, an enum named by the camel-cased
\* parent name followed by the camel-cased field name is emitted alongside the
\* record, the field's type is exactly that name, and the enum has size 16 in
\* the size table.
C12_HoistedEnumNamedParentField ==
  \A i \in 1..Len(calls) :
    (calls[i].type.k = "Enum" /\ ~calls[i].alias
       /\ DefsWith(calls[i].doc, calls[i].dom, calls[i].struct) # {}) =>
      /\ calls[i].ty.of.ty = HoistedName(calls[i].parent, calls[i].param)
      /\ ~calls[i].ty.vec /\ calls[i].ty.boxes = 0
      /\ \E d \in DefsWith(calls[i].doc, calls[i].dom, calls[i].struct) :
           d.def = "enum" /\ d.name = HoistedName(calls[i].parent, calls[i].param)
      /\ Has(type_size, HoistedName(calls[i].parent, calls[i].param))
      /\ type_size[HoistedName(calls[i].parent, calls[i].param)] = 16

\* The emitted item is that of the datatype dt of the domain `domain` of
\* document doc (1-based).
ItemOf(item, doc, domain, dt) ==
  /\ item.doc + 1 = doc
  /\ item.dom = to_snake_case(domain.name)
  /\ item.kind = dt.kind
  /\ item.name = to_camel_case(dt.name)

\* What an emitted item is to carry, given its datatype.
CarriesIdentity(item, domain, dt) ==
  /\ item.identifier = domain.name \o <<".">> \o dt.name
  /\ item.method <=> dt.kind \in {"Command", "Event"}
  /\ IF dt.kind = "Command"
     THEN /\ item.response = to_camel_case(dt.name) \o <<"R","e","t","u","r","n","s">>
          /\ \E j \in 1..Len(item.defs) :
               /\ item.defs[j].name = item.response
               /\ item.defs[j].def \in {"struct", "empty"}
     ELSE item.response = <<>>

\* C13: every emitted datatype, record or enum, of a TypeDef, Command or Event,
\* carries IDENTIFIER equal to its IDL-qualified name; Commands and Events, and
\* no TypeDef, implement Method; every Command has a <Name>Returns record and a
\* Command impl whose Response is that record.
C13_IdentifierMethodCommand ==
  \A k \in 1..Len(modules) :
    \E p \in IncludedDatatypes :
      /\ ItemOf(modules[k], p[1], pdls[p[1]].domains[p[2]],
                pdls[p[1]].domains[p[2]].types[p[3]])
      /\ CarriesIdentity(modules[k], pdls[p[1]].domains[p[2]],
                         pdls[p[1]].domains[p[2]].types[p[3]])

\* The records emitted so far: structs, alias wrappers and empty markers.
EmittedRecords ==
  UNION {{modules[i].defs[j] : j \in {j \in 1..Len(modules[i].defs) :
                                        modules[i].defs[j].def # "enum"}} :
           i \in 1..Len(modules)}

\* C14: a builder is emitted for every record with at least one included
\* field, of a TypeDef, a Command, a Returns list or an Event alike, and for no
\* record without fields; a record derives Default if and only if none of its
\* fields is mandatory.
C14_BuilderAndDefault ==
  \A d \in EmittedRecords :
    IF d.def = "struct"
    THEN /\ d.builder <=> d.fields # <<>>
         /\ d.default <=> \A i \in 1..Len(d.fields) : d.fields[i].optional
    ELSE ~d.builder /\ d.default

\* No parameter of the list passes the configured inclusion flags.
NoneIncluded(params) ==
  \A i \in 1..Len(params) :
    \/ params[i].deprecated /\ ~with_deprecated
    \/ params[i].experimental /\ ~with_experimental

\* The logged resolution c is that of the alias target of the TypeDef dt for
\* the wrapper w, and what it stored is the resolved target's size: the fixed
\* size added to the wrapper's entry, or one entry put on the worklist.
AliasResolution(c, w, item, dt) ==
  /\ c.alias /\ c.doc = item.doc /\ to_snake_case(c.dom) = item.dom
  /\ c.struct = w.name /\ c.type = dt.extends
  /\ w.wrapped = c.ty
  /\ IF c.size.side = "L"
     THEN c.added = c.size.size /\ c.pushed = 0
     ELSE c.added = 0 /\ c.pushed = 1

\* The item of the TypeDef dt is the wrapper alone, over the alias target.
IsAliasWrapper(item, dt) ==
  /\ Len(item.defs) = 1
  /\ item.defs[1].def = "wrapper"
  /\ item.defs[1].name = item.name
  /\ item.defs[1].eq_hash <=> dt.extends.k \in {"Integer", "String"}
  /\ item.defs[1].as_ref_str <=> dt.extends.k = "String"
  /\ \E i \in 1..Len(calls) : AliasResolution(calls[i], item.defs[1], item, dt)

\* The definition d is the empty marker `name`; its size-table entry is 0 once
\* the generate_type call that emitted it (the k-th) has returned.
IsEmptyMarker(d, name, k) ==
  /\ d.def = "empty"
  /\ d.name = name
  /\ (pc = "generate" /\ k = Len(modules)) =>
       Has(type_size, name) /\ type_size[name] = 0

\* What the item of the datatype dt is to hold where a field list is empty.
EmptyFieldLists(item, dt, k) ==
  /\ NoneIncluded(dt.params) =>
       IF dt.kind = "Type" THEN IsAliasWrapper(item, dt)
       ELSE IsEmptyMarker(item.defs[1], item.name, k)
  /\ (dt.kind = "Command" /\ NoneIncluded(dt.returns)) =>
       IsEmptyMarker(item.defs[Len(item.defs)], item.response, k)

\* C15: for a datatype whose included field list is empty, a TypeDef yields a
\* single-field wrapper over the resolved alias target and nothing else, with
\* Eq and Hash exactly for an integer or string target and AsRef<str> exactly
\* for a string target, and stores the size of the alias target; a Command, an
\* Event or a Returns list yields an empty marker record whose size-table
\* entry is 0 when generate_type returns.
C15_AliasWrapperOrEmptyMarker ==
  \A k \in 1..Len(modules) : \A p \in IncludedDatatypes :
    (/\ ItemOf(modules[k], p[1], pdls[p[1]].domains[p[2]],
               pdls[p[1]].domains[p[2]].types[p[3]])
     /\ pdls[p[1]].domains[p[2]].types[p[3]].vars = <<>>) =>
      EmptyFieldLists(modules[k], pdls[p[1]].domains[p[2]].types[p[3]], k)

\* An alias over string, wrapped with Eq, Hash and AsRef<str> and adding the
\* string's size, followed by a command whose only parameter is deprecated and
\* whose empty marker has just got the size 0.
C15_StringAliasAndEmptyCommand ==
  /\ pc = "generate" /\ Len(modules) = 3
  /\ modules[2].defs[1].def = "wrapper"
  /\ modules[2].defs[1].as_ref_str /\ modules[2].defs[1].eq_hash
  /\ \E i \in 1..Len(calls) : calls[i].alias /\ calls[i].added = 24
  /\ modules[3].kind = "Command"
  /\ pdls[1].domains[1].types[3].params # <<>>
  /\ modules[3].defs[1].def = "empty"
  /\ type_size[modules[3].name] = 0

\* The item passes the configured flags: it is not deprecated unless
\* deprecated items are enabled, and not experimental unless experimental
\* items are enabled.
Passes(x) ==
  /\ x.deprecated => with_deprecated
  /\ x.experimental => with_experimental

PassingParams(params) == SelectSeq(params, Passes)

\* The datatypes of the input that pass the flags, in a domain that does.
PassingDatatypes ==
  UNION {UNION {{<<k, d, t>> : t \in {t \in 1..Len(pdls[k].domains[d].types) :
                                        /\ Passes(pdls[k].domains[d])
                                        /\ Passes(pdls[k].domains[d].types[t])}} :
                  d \in 1..Len(pdls[k].domains)} :
           k \in 1..Len(pdls)}

\* The names of the fields of the record `name` of the item (none for a
\* wrapper or an empty marker).
FieldNamesOf(item, name) ==
  IF \E j \in 1..Len(item.defs) :
       item.defs[j].def = "struct" /\ item.defs[j].name = name
  THEN [i \in 1..Len((CHOOSE d \in {item.defs[j] : j \in 1..Len(item.defs)} :
                        d.def = "struct" /\ d.name = name).fields) |->
          (CHOOSE d \in {item.defs[j] : j \in 1..Len(item.defs)} :
             d.def = "struct" /\ d.name = name).fields[i].name]
  ELSE <<>>

SnakeNames(params) == [i \in 1..Len(params) |-> field_name(params[i].name)]

RawNames(params) == [i \in 1..Len(params) |-> params[i].name]

\* The parameters whose resolution for a field of the datatype dt of the item
\* was logged, in order: each added to a size-table entry or pushed a
\* worklist entry.
LoggedFor(item, dt) ==
  SelectSeq(calls, LAMBDA c : /\ c.doc = item.doc /\ to_snake_case(c.dom) = item.dom
                              /\ c.parent = dt.name /\ ~c.alias)

ResolvedParams(item, dt) ==
  [i \in 1..Len(LoggedFor(item, dt)) |-> LoggedFor(item, dt)[i].param]

InlineEnums(params) == SelectSeq(params, LAMBDA q : q.type.k = "Enum")

\* The item of the record datatype dt holds the passing parameters of dt and
\* nothing of the others.
OnlyPassingParams(item, dt) ==
  /\ FieldNamesOf(item, item.name) = SnakeNames(PassingParams(dt.params))
  /\ dt.kind = "Command" =>
       FieldNamesOf(item, item.response) = SnakeNames(PassingParams(dt.returns))
  /\ Cardinality({j \in 1..Len(item.defs) : item.defs[j].def = "enum"})
       = Len(InlineEnums(PassingParams(dt.params)))
         + Len(InlineEnums(PassingParams(dt.returns)))
  /\ ResolvedParams(item, dt)
       = RawNames(PassingParams(dt.params)) \o RawNames(PassingParams(dt.returns))

\* The synthesis loops of the running call have visited every document.
SynthesisDone == (pc = "generate" /\ work = <<>>) \/ FixupStarted

\* C16: a domain, datatype, parameter or returns-parameter that is deprecated
\* while deprecated items are disabled (the default), or experimental while
\* experimental items are disabled, yields no item, field, hoisted enum or
\* Event case, adds to no size-table entry and pushes no worklist entry; every
\* other one (under the default configuration, the experimental ones among
\* them) is emitted.
C16_ExactlyThePassingItems ==
  /\ \A k \in 1..Len(modules) :
       \E p \in PassingDatatypes :
         /\ ItemOf(modules[k], p[1], pdls[p[1]].domains[p[2]],
                   pdls[p[1]].domains[p[2]].types[p[3]])
         /\ pdls[p[1]].domains[p[2]].types[p[3]].vars = <<>> =>
              OnlyPassingParams(modules[k], pdls[p[1]].domains[p[2]].types[p[3]])
  /\ SynthesisDone =>
       \A p \in PassingDatatypes :
         \E k \in 1..Len(modules) :
           ItemOf(modules[k], p[1], pdls[p[1]].domains[p[2]],
                  pdls[p[1]].domains[p[2]].types[p[3]])
  /\ AfterEvents =>
       /\ {events[i].rename : i \in 1..Len(events)}
            = {pdls[p[1]].domains[p[2]].name \o <<".">>
                 \o pdls[p[1]].domains[p[2]].types[p[3]].name :
                 p \in {q \in PassingDatatypes :
                          pdls[q[1]].domains[q[2]].types[q[3]].kind = "Event"}}
       /\ Len(events)
            = Cardinality({q \in PassingDatatypes :
                             pdls[q[1]].domains[q[2]].types[q[3]].kind = "Event"})

\* Under the default configuration, an experimental event with a deprecated
\* inline-enum parameter: the event is emitted and is a case of the union, the
\* parameter is no field of it and no enum is hoisted.
C16_ExperimentalKeptDeprecatedDropped ==
  /\ with_experimental /\ ~with_deprecated
  /\ AfterEvents
  /\ Len(pdls) = 1 /\ Len(pdls[1].domains) = 1 /\ Len(pdls[1].domains[1].types) = 2
  /\ pdls[1].domains[1].types[2].kind = "Event"
  /\ pdls[1].domains[1].types[2].experimental
  /\ Len(pdls[1].domains[1].types[2].params) = 2
  /\ pdls[1].domains[1].types[2].params[2].deprecated
  /\ pdls[1].domains[1].types[2].params[2].type.k = "Enum"
  /\ Len(modules) = 2 /\ Len(modules[2].defs) = 1
  /\ Len(modules[2].defs[1].fields) = 1
  /\ Len(events) = 1

\* Every domain of every input document is in the domain map, with the
\* (0-based) index of its document.
DomainsRegistered ==
  \A k \in 1..Len(pdls) : \A d \in 1..Len(pdls[k].domains) :
    /\ Has(domains, pdls[k].domains[d].name)
    /\ domains[pdls[k].domains[d].name] = k - 1

\* C17: in every step of type synthesis, of the fix-up pass and of the Event
\* union assembly, the domain map holds every domain of every document before
\* the step and is the same after it; of the Generator's fields such a step
\* changes only the size table and the deferred worklist.
C17_DomainMapBuiltThenFrozen ==
  [][(pc \in {"generate", "fixup"}) =>
       (DomainsRegistered /\ UNCHANGED <<domains, protocol_mods, config_vars>>)]_vars

\* The fix-up pass at work on a reference between two documents, each with a
\* domain of its own, after synthesis has changed the size table.
C17_FixupAcrossTwoDocuments ==
  /\ pc = "fixup" /\ refs # <<>>
  /\ Len(pdls) = 2
  /\ DomainsRegistered
  /\ Cardinality(DOMAIN domains) = 2
  /\ Len(modules) = 2
  /\ DOMAIN type_size # {}

\* The name of the hoisted enum that the logged resolution c made the type of
\* a field (an inline enum) or the element type of an array field (an array of
\* inline enums).
HoistedTypeName(c) == IF c.type.k = "Enum" THEN c.ty.of.ty ELSE c.ty.of.of.ty

\* The enum definitions named n emitted in the module of the domain dom of
\* document doc, as (item, definition) positions.
EnumDefsNamed(doc, dom, n) ==
  UNION {{<<i, j>> : j \in {j \in 1..Len(modules[i].defs) :
                              /\ modules[i].defs[j].def = "enum"
                              /\ modules[i].defs[j].name = n}} :
           i \in {i \in 1..Len(modules) :
                    modules[i].doc = doc /\ modules[i].dom = to_snake_case(dom)}}

\* C18: for every emitted field whose type is an inline enum or an array of
\* inline enums, the enum name used as the field's type or element type has
\* exactly one enum definition in the module of the field's domain.
C18_OneDefinitionPerHoistedName ==
  \A i \in 1..Len(calls) :
    (/\ ~calls[i].alias
     /\ \/ calls[i].type.k = "Enum"
        \/ calls[i].type.k = "ArrayOf" /\ calls[i].type.of.k = "Enum"
     /\ DefsWith(calls[i].doc, calls[i].dom, calls[i].struct) # {}) =>
      Cardinality(EnumDefsNamed(calls[i].doc, calls[i].dom,
                                HoistedTypeName(calls[i]))) = 1

====
